---------------------------- MODULE Spec2Model ----------------------------
(* A model of Lib/urllib/url.py: the URL value type with its per-field     *)
(* setters, and the URLPath / URLQuery collection types.                   *)
(*                                                                         *)
(* A Python str is a sequence of one-character strings.  The modelled      *)
(* character universe is ASCII.  A Python value that may be None, a str or *)
(* an int, or an attribute that was never assigned, is a record            *)
(* [k, s, n] with k in {"unset", "None", "str", "int"}.                    *)
EXTENDS Integers, Sequences, FiniteSets, TLC

\* Python evaluates an expression once when it binds it to a name or passes
\* it to a call: F applied to the value of e.
Eval(e, F(_)) == CHOOSE r \in {F(v) : v \in {e}} : TRUE

(***************************************************************************)
(* Characters                                                              *)
(***************************************************************************)
ascii_lowercase ==
    {"a","b","c","d","e","f","g","h","i","j","k","l","m",
     "n","o","p","q","r","s","t","u","v","w","x","y","z"}

ascii_uppercase ==
    {"A","B","C","D","E","F","G","H","I","J","K","L","M",
     "N","O","P","Q","R","S","T","U","V","W","X","Y","Z"}

ascii_letters == ascii_lowercase \cup ascii_uppercase

digits == {"0","1","2","3","4","5","6","7","8","9"}

GEN_DELIMS == {":", "/", "?", "#", "[", "]", "@"}

SUB_DELIMS == {"!", "$", "&", "'", "(", ")", "*", "+", ",", ";", "="}

RESERVED == GEN_DELIMS \cup SUB_DELIMS

UNRESERVED == ascii_letters \cup digits \cup {"-", "_", ".", "~"}

PCT == {"%"}

\* urllib.parse.scheme_chars
scheme_chars == ascii_letters \cup digits \cup {"+", "-", "."}

\* urllib.parse._UNSAFE_URL_BYTES_TO_REMOVE
UNSAFE_URL_BYTES_TO_REMOVE == {"\t", "\r", "\n"}

\* The printable ASCII characters, code points 32..126 in order (the grave
\* accent, code 96, is held by a placeholder: no modelled text uses it).
AsciiPrintable ==
    <<" ", "!", "\"", "#", "$", "%", "&", "'", "(", ")", "*", "+", ",", "-",
      ".", "/", "0", "1", "2", "3", "4", "5", "6", "7", "8", "9", ":", ";",
      "<", "=", ">", "?", "@", "A", "B", "C", "D", "E", "F", "G", "H", "I",
      "J", "K", "L", "M", "N", "O", "P", "Q", "R", "S", "T", "U", "V", "W",
      "X", "Y", "Z", "[", "\\", "]", "^", "_", "<grave>", "a", "b", "c", "d", "e",
      "f", "g", "h", "i", "j", "k", "l", "m", "n", "o", "p", "q", "r", "s",
      "t", "u", "v", "w", "x", "y", "z", "{", "|", "}", "~">>

\* ord(c) for an ASCII character
Ord(c) ==
    IF c = "\t" THEN 9
    ELSE IF c = "\n" THEN 10
    ELSE IF c = "\r" THEN 13
    ELSE 31 + (CHOOSE i \in 1..Len(AsciiPrintable) : AsciiPrintable[i] = c)

\* chr(n) for the code points of the modelled universe
Chr(n) ==
    IF n = 9 THEN "\t"
    ELSE IF n = 10 THEN "\n"
    ELSE IF n = 13 THEN "\r"
    ELSE AsciiPrintable[n - 31]

HasChr(n) == n \in {9, 10, 13} \/ (n >= 32 /\ n <= 126)

HexUpper == <<"0","1","2","3","4","5","6","7","8","9","A","B","C","D","E","F">>

HexLower == <<"0","1","2","3","4","5","6","7","8","9","a","b","c","d","e","f">>

IsHexDigit(c) == \E i \in 1..16 : HexUpper[i] = c \/ HexLower[i] = c

HexVal(c) == (CHOOSE i \in 1..16 : HexUpper[i] = c \/ HexLower[i] = c) - 1

(***************************************************************************)
(* str methods                                                             *)
(***************************************************************************)
RECURSIVE Concat(_)
\* the concatenation of the strings of parts
Concat(parts) ==
    Eval(parts, LAMBDA p :
        IF p = <<>> THEN <<>> ELSE Head(p) \o Concat(Tail(p)))

RECURSIVE Join(_, _)
\* sep.join(parts)
Join(parts, sep) ==
    Eval(parts, LAMBDA p :
        IF p = <<>> THEN <<>>
        ELSE IF Len(p) = 1 THEN p[1]
        ELSE p[1] \o sep \o Join(Tail(p), sep))

\* s.find(c): the first position of character c in s, 0 when absent
Find(string, c) ==
    Eval(string, LAMBDA s :
        IF \E i \in 1..Len(s) : s[i] = c
        THEN CHOOSE i \in 1..Len(s) :
                 s[i] = c /\ \A j \in 1..(i - 1) : s[j] # c
        ELSE 0)

RECURSIVE Split(_, _)
\* s.split(c) for a one-character separator: never the empty list
Split(string, c) ==
    Eval(string, LAMBDA s : Eval(Find(s, c), LAMBDA i :
        IF i = 0 THEN <<s>>
        ELSE <<SubSeq(s, 1, i - 1)>> \o Split(SubSeq(s, i + 1, Len(s)), c)))

\* s.split(c, 1)
Split1(string, c) ==
    Eval(string, LAMBDA s : Eval(Find(s, c), LAMBDA i :
        IF i = 0 THEN <<s>>
        ELSE <<SubSeq(s, 1, i - 1), SubSeq(s, i + 1, Len(s))>>))

\* s.replace(c, "") for a one-character c
Remove(s, c) == SelectSeq(s, LAMBDA x : x # c)

\* s.replace(c, d) for one-character c and d
ReplaceChar(string, c, d) ==
    Eval(string, LAMBDA s :
        <<>> \o [i \in 1..Len(s) |-> IF s[i] = c THEN d ELSE s[i]])

LowerChar(c) ==
    IF c \in ascii_uppercase THEN Chr(Ord(c) + 32) ELSE c

\* s.lower()
Lower(string) ==
    Eval(string, LAMBDA s : <<>> \o [i \in 1..Len(s) |-> LowerChar(s[i])])

\* s.isdigit() on ASCII text
IsDigit(string) ==
    Eval(string, LAMBDA s : s # <<>> /\ \A i \in 1..Len(s) : s[i] \in digits)

\* all(character in set(allowed) for character in s)
AllIn(string, allowed) ==
    Eval(string, LAMBDA s : \A i \in 1..Len(s) : s[i] \in allowed)

RECURSIVE IntDigits(_)
IntDigits(n) ==
    IF n < 10 THEN <<Chr(48 + n)>>
    ELSE IntDigits(n \div 10) \o <<Chr(48 + (n % 10))>>

\* str(n) for an int
IntToStr(n) == IF n < 0 THEN <<"-">> \o IntDigits(-n) ELSE IntDigits(n)

(***************************************************************************)
(* urllib.parse quoting                                                    *)
(***************************************************************************)
\* the characters urllib.parse.quote never escapes
ALWAYS_SAFE == ascii_letters \cup digits \cup {"_", ".", "-", "~"}

QuoteChar(c, safe) ==
    IF c \in ALWAYS_SAFE \cup safe THEN <<c>>
    ELSE Eval(Ord(c), LAMBDA n :
             <<"%", HexUpper[(n \div 16) + 1], HexUpper[(n % 16) + 1]>>)

\* urllib.parse.quote(s, safe)
Quote(string, safe) ==
    Eval(string, LAMBDA s :
        Concat([i \in 1..Len(s) |-> QuoteChar(s[i], safe)]))

\* urllib.parse.quote_plus(s, safe)
QuotePlus(s, safe) == ReplaceChar(Quote(s, safe \cup {" "}), " ", "+")

RECURSIVE Unquote(_)
\* urllib.parse.unquote(s): %XX becomes the character, anything else stays
Unquote(string) ==
    Eval(string, LAMBDA s :
        IF s = <<>> THEN <<>>
        ELSE IF s[1] = "%" /\ Len(s) >= 3 /\ IsHexDigit(s[2]) /\ IsHexDigit(s[3])
                /\ HasChr(16 * HexVal(s[2]) + HexVal(s[3]))
             THEN <<Chr(16 * HexVal(s[2]) + HexVal(s[3]))>>
                      \o Unquote(SubSeq(s, 4, Len(s)))
             ELSE <<s[1]>> \o Unquote(Tail(s)))

(***************************************************************************)
(* The idna codec and ipaddress.IPv6Address, on ASCII text                 *)
(***************************************************************************)
\* _host.encode("idna") raises UnicodeError: an ASCII name is returned as it
\* is unless a label before the last is empty or any label has 64 characters
\* or more.
IdnaRaises(string) ==
    Eval(Split(string, "."), LAMBDA labels :
        /\ labels # << <<>> >>
        /\ \/ \E i \in 1..(Len(labels) - 1) :
                  Len(labels[i]) = 0 \/ Len(labels[i]) >= 64
           \/ Len(labels[Len(labels)]) >= 64)

\* _host.encode("idna").decode("utf-8") when it does not raise
IdnaEncode(s) == s

RECURSIVE DecimalValue(_)
\* int(s) for a string of decimal digits
DecimalValue(string) ==
    Eval(string, LAMBDA s :
        IF s = <<>> THEN 0
        ELSE 10 * DecimalValue(SubSeq(s, 1, Len(s) - 1)) + (Ord(s[Len(s)]) - 48))

\* ipaddress.IPv4Address._parse_octet accepts the octet
IsIPv4Octet(octet) ==
    Eval(octet, LAMBDA o :
        /\ o # <<>>
        /\ AllIn(o, digits)
        /\ Len(o) <= 3
        /\ (Len(o) > 1 => o[1] # "0")
        /\ DecimalValue(o) <= 255)

\* ipaddress.IPv4Address(s) does not raise AddressValueError
IsIPv4Address(string) ==
    Eval(string, LAMBDA s : Eval(Split(s, "."), LAMBDA octets :
        /\ s # <<>>
        /\ \A i \in 1..Len(s) : s[i] # "/"
        /\ Len(octets) = 4
        /\ \A i \in 1..4 : IsIPv4Octet(octets[i])))

\* ipaddress.IPv6Address._parse_hextet accepts the hextet
IsHextet(hextet) ==
    Eval(hextet, LAMBDA h :
        /\ h # <<>>
        /\ \A i \in 1..Len(h) : IsHexDigit(h[i])
        /\ Len(h) <= 4)

HEXTET_COUNT == 8

\* IPv6Address._ip_int_from_string(s) does not raise AddressValueError
IsIPv6Text(string) ==
    Eval(Split(string, ":"), LAMBDA raw :
    LET last == raw[Len(raw)]
        hasV4 == \E i \in 1..Len(last) : last[i] = "."
    IN
    \* a dotted-quad tail is replaced by its two hextets
    Eval(IF hasV4 THEN SubSeq(raw, 1, Len(raw) - 1) \o << <<"0">>, <<"0">> >>
         ELSE raw, LAMBDA parts :
    LET n == Len(parts)
        skips == {i \in 2..(n - 1) : parts[i] = <<>>}
        skip == CHOOSE i \in skips : TRUE
        hi == IF parts[1] = <<>> THEN skip - 2 ELSE skip - 1
        lo == IF parts[n] = <<>> THEN n - skip - 1 ELSE n - skip
    IN
    /\ Len(raw) >= 3
    /\ (hasV4 => IsIPv4Address(last))
    /\ n <= HEXTET_COUNT + 1
    /\ Cardinality(skips) <= 1
    /\ IF skips # {}
       THEN /\ (parts[1] = <<>> => hi = 0)
            /\ (parts[n] = <<>> => lo = 0)
            /\ HEXTET_COUNT - (hi + lo) >= 1
            /\ \A i \in 1..hi : IsHextet(parts[i])
            /\ \A i \in (n - lo + 1)..n : IsHextet(parts[i])
       ELSE /\ n = HEXTET_COUNT
            /\ \A i \in 1..n : IsHextet(parts[i])))

\* ipaddress.IPv6Address(s) does not raise AddressValueError
IsIPv6Address(string) ==
    Eval(string, LAMBDA s : Eval(Find(s, "%"), LAMBDA p :
    LET addr == IF p = 0 THEN s ELSE SubSeq(s, 1, p - 1)
        scope == IF p = 0 THEN <<>> ELSE SubSeq(s, p + 1, Len(s))
    IN
    /\ \A i \in 1..Len(s) : s[i] # "/"
    /\ (p # 0 => scope # <<>> /\ Find(scope, "%") = 0)
    /\ IsIPv6Text(addr)))

(***************************************************************************)
(* Python values                                                           *)
(***************************************************************************)
\* an attribute that was never assigned: reading it raises AttributeError
Unset == [k |-> "unset", s |-> <<>>, n |-> 0]

None == [k |-> "None", s |-> <<>>, n |-> 0]

StrVal(s) == [k |-> "str", s |-> s, n |-> 0]

IntVal(n) == [k |-> "int", s |-> <<>>, n |-> n]

\* bool(v): the test of "if v:" and "not v"
Truthy(v) ==
    CASE v.k = "str" -> v.s # <<>>
      [] v.k = "int" -> v.n # 0
      [] OTHER -> FALSE

\* the outcome of a call on a URL: the object's attributes when the call
\* ends, the value it returns and the exception it raises ("none": returns)
Returns(self, ret) == [self |-> self, ret |-> ret, exc |-> "none"]

Raises(self, exc) == [self |-> self, ret |-> None, exc |-> exc]

(***************************************************************************)
(* class URL                                                               *)
(***************************************************************************)
\* a URL object on which no attribute has been assigned yet
NewURL == [scheme |-> Unset, userinfo |-> Unset, host |-> Unset, port |-> Unset]

clear_unsafe_bytes(string) ==
    SelectSeq(string, LAMBDA c : c \notin UNSAFE_URL_BYTES_TO_REMOVE)

\* URL.scheme = _scheme
scheme_setter(self, _scheme) ==
    IF ~Truthy(_scheme) THEN Raises(self, "ValueError")
    ELSE IF ~AllIn(_scheme.s, scheme_chars) THEN Raises(self, "ValueError")
    ELSE IF _scheme.s[1] \notin ascii_letters THEN Raises(self, "ValueError")
    ELSE Returns([self EXCEPT !.scheme = StrVal(Lower(_scheme.s))], None)

\* URL.userinfo = _userinfo
userinfo_setter(self, _userinfo) ==
    IF ~Truthy(_userinfo)
    THEN Returns([self EXCEPT !.userinfo = None], None)
    ELSE Eval(Quote(_userinfo.s, {":"} \cup SUB_DELIMS \cup PCT), LAMBDA quoted :
         IF ~AllIn(quoted, SUB_DELIMS \cup {":"} \cup UNRESERVED \cup PCT)
         THEN Raises(self, "ValueError")
         ELSE Returns([self EXCEPT !.userinfo = StrVal(quoted)], None))

\* URL.userinfo
userinfo_getter(self) ==
    IF self.userinfo.k = "unset" THEN Raises(self, "AttributeError")
    ELSE Returns(self, self.userinfo)

\* URL.username = _username, for a str _username
username_setter(self, _username) ==
    LET quoted == Quote(_username.s, SUB_DELIMS \cup PCT) IN
    IF self.userinfo.k # "str" THEN Raises(self, "AttributeError")
    ELSE Eval(Split(self.userinfo.s, ":"), LAMBDA parts :
         LET put == [parts EXCEPT ![1] = quoted]
         IN Returns([self EXCEPT !.userinfo = StrVal(Join(put, <<":">>))], None))

\* URL.password = _password, for a str _password
password_setter(self, _password) ==
    LET quoted == Quote(_password.s, SUB_DELIMS \cup PCT) IN
    IF self.userinfo.k # "str" THEN Raises(self, "AttributeError")
    ELSE Eval(Split(self.userinfo.s, ":"), LAMBDA parts :
         IF Len(parts) < 2 THEN Raises(self, "IndexError")
         ELSE LET put == [parts EXCEPT ![2] = quoted] IN
              Returns([self EXCEPT !.userinfo = StrVal(Join(put, <<":">>))], None))

\* URL.host = _host, for a str or None _host
host_setter(self, _host) ==
    IF ~Truthy(_host) THEN Raises(self, "ValueError")
    ELSE IF IdnaRaises(_host.s) THEN Raises(self, "UnicodeError")
    ELSE Eval(IdnaEncode(_host.s), LAMBDA encoded :
         IF ~AllIn(encoded, SUB_DELIMS \cup PCT \cup UNRESERVED)
         THEN Raises(self, "ValueError")
         ELSE IF IsIPv6Address(encoded)
         THEN Returns([self EXCEPT
                          !.host = StrVal(<<"[">> \o encoded \o <<"]">>)], None)
         ELSE Returns([self EXCEPT !.host = StrVal(Lower(encoded))], None))

\* URL.port = _port
port_setter(self, _port) ==
    IF ~Truthy(_port) THEN Returns([self EXCEPT !.port = None], None)
    ELSE IF _port.k = "str"
    THEN IF ~IsDigit(_port.s) THEN Raises(self, "ValueError")
         ELSE Returns([self EXCEPT !.port = StrVal(_port.s)], None)
    ELSE Returns([self EXCEPT !.port = _port], None)

\* URL.port
port_getter(self) ==
    IF self.port.k = "unset" THEN Raises(self, "AttributeError")
    ELSE Returns(self, self.port)

\* f"{v}" for a str or an int
Format(v) == IF v.k = "int" THEN IntToStr(v.n) ELSE v.s

\* URL.authority
authority_getter(self) ==
    \* self.host reads self._host
    IF self.host.k = "unset" THEN Raises(self, "AttributeError")
    ELSE IF ~Truthy(self.host) THEN Raises(self, "ValueError")
    ELSE IF self.userinfo.k = "unset" THEN Raises(self, "AttributeError")
    ELSE IF self.port.k = "unset" THEN Raises(self, "AttributeError")
    ELSE LET a1 == IF Truthy(self.userinfo)
                   THEN self.userinfo.s \o <<"@">> ELSE <<>>
             a2 == a1 \o self.host.s
             a3 == IF Truthy(self.port)
                   THEN a2 \o <<":">> \o Format(self.port) ELSE a2
         IN Returns(self, StrVal(a3))

\* the authority setter with its three writes in another order: _userinfo
\* and _port are assigned before the host goes through its setter
authority_setter_host_last(self, _authority) ==
    IF ~Truthy(_authority) THEN Raises(self, "ValueError")
    ELSE Eval(clear_unsafe_bytes(_authority.s), LAMBDA cleared :
         IF cleared = <<>> THEN Returns(self, None)
         ELSE Eval(Split(Quote(cleared, {"@", ":"}), "@"), LAMBDA parts :
              Eval(Split1(parts[Len(parts)], ":"), LAMBDA host_and_port :
              LET s1 == IF Len(parts) > 1
                        THEN [self EXCEPT !.userinfo = StrVal(parts[1])]
                        ELSE self
                  s2 == IF Len(host_and_port) > 1
                        THEN [s1 EXCEPT !.port = StrVal(host_and_port[2])]
                        ELSE s1
              IN host_setter(s2, StrVal(host_and_port[1])))))

\* URL.authority = _authority: the host through its setter, then _port and
\* _userinfo by plain assignment
authority_setter(self, _authority) ==
    IF ~Truthy(_authority) THEN Raises(self, "ValueError")
    ELSE Eval(clear_unsafe_bytes(_authority.s), LAMBDA cleared :
         IF cleared = <<>> THEN Returns(self, None)
         ELSE Eval(Split(Quote(cleared, {"@", ":"}), "@"), LAMBDA parts :
              Eval(Split1(parts[Len(parts)], ":"), LAMBDA host_and_port :
              Eval(host_setter(self, StrVal(host_and_port[1])), LAMBDA r1 :
              LET s2 == IF Len(host_and_port) > 1
                        THEN [r1.self EXCEPT !.port = StrVal(host_and_port[2])]
                        ELSE r1.self
                  s3 == IF Len(parts) > 1
                        THEN [s2 EXCEPT !.userinfo = StrVal(parts[1])]
                        ELSE s2
              IN IF r1.exc # "none" THEN r1 ELSE Returns(s3, None)))))

\* URL.__str__
URL_str(self) == Returns(self, StrVal(<<"<", "W", "I", "P", ">">>))

(***************************************************************************)
(* Form encoding (urllib.parse.urlencode, urllib.parse.parse_qsl) and dict *)
(* A dict is the sequence of its <<key, value>> items in insertion order,  *)
(* no key twice.                                                           *)
(***************************************************************************)
DictHas(d, key) == \E i \in 1..Len(d) : d[i][1] = key

\* d[key] = value
DictPut(dict, key, value) ==
    Eval(dict, LAMBDA d :
        IF DictHas(d, key)
        THEN <<>> \o [i \in 1..Len(d) |->
                         IF d[i][1] = key THEN <<key, value>> ELSE d[i]]
        ELSE Append(d, <<key, value>>))

RECURSIVE DictOf(_)
\* dict(pairs): a later pair overwrites an earlier one with the same key
DictOf(pairs) ==
    Eval(pairs, LAMBDA p :
        IF p = <<>> THEN <<>>
        ELSE DictPut(DictOf(SubSeq(p, 1, Len(p) - 1)), p[Len(p)][1], p[Len(p)][2]))

\* d1 == d2 for two dicts: the same keys with the same values, in any order
DictEq(d1, d2) ==
    {d1[i] : i \in 1..Len(d1)} = {d2[i] : i \in 1..Len(d2)}

\* urllib.parse.urlencode(d) for a dict of str keys and str values
urlencode(dict) ==
    Eval(dict, LAMBDA d :
        Join([i \in 1..Len(d) |->
                 QuotePlus(d[i][1], {}) \o <<"=">> \o QuotePlus(d[i][2], {})],
             <<"&">>))

\* one field of parse_qsl: the pair it appends, or nothing (keep_blank_values
\* and strict_parsing are left at their defaults, False)
ParseField(name_value) ==
    Eval(Split1(name_value, "="), LAMBDA nv :
        IF name_value = <<>> THEN <<>>
        ELSE IF Len(nv) # 2 THEN <<>>
        ELSE IF Len(nv[2]) = 0 THEN <<>>
        ELSE << <<Unquote(ReplaceChar(nv[1], "+", " ")),
                  Unquote(ReplaceChar(nv[2], "+", " "))>> >>)

\* urllib.parse.parse_qsl(qs=qs)
parse_qsl(qs) ==
    Eval(IF qs = <<>> THEN <<>> ELSE Split(qs, "&"), LAMBDA query_args :
        Concat([i \in 1..Len(query_args) |-> ParseField(query_args[i])]))

(***************************************************************************)
(* URL.__init__                                                            *)
(***************************************************************************)
ListVal(items) == [k |-> "list", s |-> items, n |-> 0]

DictVal(items) == [k |-> "dict", s |-> items, n |-> 0]

\* the local variable path when __init__ ends
init_path(path) ==
    IF path.k = "list"
    THEN StrVal(Join([i \in 1..Len(path.s) |-> Quote(path.s[i], {})], <<"/">>))
    ELSE IF Truthy(path) THEN StrVal(Quote(path.s, {"/"}))
    ELSE path

\* the dict comprehension {quote(key): quote(query[key]) for key in query}
QuotedItems(dict) ==
    Eval(dict, LAMBDA d :
        DictOf([i \in 1..Len(d) |->
                   <<Quote(d[i][1], {"/"}), Quote(d[i][2], {"/"})>>]))

\* the local variable query when __init__ ends
init_query(query) ==
    IF query.k = "dict" THEN StrVal(urlencode(QuotedItems(query.s)))
    ELSE IF Truthy(query) THEN StrVal(Quote(query.s, {"?", "&", "="}))
    ELSE query

\* URL(scheme, authority, userinfo, host, port, ...): the attributes of the
\* new object, or the exception that ends the construction
URL_init(scheme, authority, userinfo, host, port) ==
    Eval(scheme_setter(NewURL, scheme), LAMBDA r0 :
    IF r0.exc # "none" THEN r0
    ELSE IF Truthy(authority) /\ (Truthy(host) \/ Truthy(port) \/ Truthy(userinfo))
    THEN Raises(r0.self, "ValueError")
    ELSE IF ~Truthy(authority) /\ ~Truthy(host)
    THEN Raises(r0.self, "ValueError")
    ELSE IF Truthy(authority) THEN authority_setter(r0.self, authority)
    ELSE Eval(userinfo_setter(r0.self, userinfo), LAMBDA r1 :
         IF r1.exc # "none" THEN r1
         ELSE Eval(host_setter(r1.self, host), LAMBDA r2 :
              IF r2.exc # "none" THEN r2
              ELSE port_setter(r2.self, port))))

(***************************************************************************)
(* class URLPath(list[str]): the list of its segments                      *)
(***************************************************************************)
BytesVal(s) == [k |-> "bytes", s |-> s, n |-> 0]

\* URLPath(path): a str is split on "/", an iterable is copied, another
\* falsy value gives the empty path, anything else raises ValueError
URLPath_init(path) ==
    IF path.k = "str" THEN [self |-> Split(path.s, "/"), exc |-> "none"]
    ELSE IF path.k = "list" THEN [self |-> path.s, exc |-> "none"]
    ELSE IF ~Truthy(path) THEN [self |-> <<>>, exc |-> "none"]
    ELSE [self |-> <<>>, exc |-> "ValueError"]

\* URLPath.__str__
URLPath_str(self) ==
    Eval(self, LAMBDA list :
        Join([i \in 1..Len(list) |-> Quote(list[i], {"/"})], <<"/">>))

\* _normalize_index, nested in URLPath.__setitem__
normalize_index(index, length) ==
    IF index < 0 THEN length + index ELSE index

\* a slice bound as list slicing reads it: negative counts from the end,
\* then clamped to 0..len
SliceBound(b, length) ==
    LET c == IF b < 0 THEN length + b ELSE b IN
    IF c < 0 THEN 0 ELSE IF c > length THEN length ELSE c

\* list[:stop]
SliceTo(list, stop) == SubSeq(list, 1, SliceBound(stop, Len(list)))

\* list[start:]
SliceFrom(list, start) ==
    SubSeq(list, SliceBound(start, Len(list)) + 1, Len(list))

\* an expression's outcome: a value, or the TypeError it raises
Value(v) == [raised |-> FALSE, value |-> v]

TypeError == [raised |-> TRUE, value |-> <<>>]

\* +operand for a list operand: list defines no unary plus
UnaryPlus(operand) == TypeError

\* left / right for a list left operand: list defines no division
TrueDiv(left, right) == TypeError

\* left + right for two lists
ListAdd(left, right) == Value(left \o right)

\* the parts of the value given to __setitem__ (lines 51-56)
SetitemValues(_value) ==
    IF _value.k = "str" THEN Split(_value.s, "/")
    ELSE IF _value.k = "bytes" THEN Split(_value.s, "/")
    ELSE _value.s

\* URLPath.__setitem__(_key, _value): the list is cleared, and then extended
\* by   copy[:i] + list(values) / + copy[i + 1:]   which Python reads as
\* copy[:i] + (list(values) / (+copy[i + 1:]))
URLPath_setitem(self, _key, _value) ==
    LET values == SetitemValues(_value)
        copy == self
        cleared == <<>>
        index == normalize_index(_key, Len(copy))
        head == SliceTo(copy, index)
        tail == UnaryPlus(SliceFrom(copy, index + 1))
        quotient == IF tail.raised THEN tail ELSE TrueDiv(values, tail.value)
        argument == IF quotient.raised THEN quotient
                    ELSE ListAdd(head, quotient.value)
    IN IF argument.raised THEN [self |-> cleared, exc |-> "TypeError"]
       ELSE [self |-> cleared \o argument.value, exc |-> "none"]

(***************************************************************************)
(* class URLQuery(dict)                                                    *)
(***************************************************************************)
\* URLQuery(query)
URLQuery_init(query) ==
    IF query.k = "dict" THEN query.s
    ELSE IF query.k = "str" THEN DictOf(parse_qsl(query.s))
    ELSE <<>>

\* URLQuery.__str__
URLQuery_str(self) == urlencode(self)

(***************************************************************************)
(* The state: one URL object, one URLPath and one URLQuery                 *)
(***************************************************************************)
VARIABLES
    constructed,    \* URL.__init__ has returned: the object exists
    _scheme,        \* URL._scheme
    _userinfo,      \* URL._userinfo
    _host,          \* URL._host
    _port,          \* URL._port
    locals,         \* the locals path, query and segment when __init__ ended
    call,           \* the last call on the URL: op, argument, exception, result
    path,           \* a URLPath
    path_call,      \* the last call on the URLPath
    reparsed,       \* URLPath(str(path)), once it has been built
    query,          \* a URLQuery
    query_call,     \* the last call on the URLQuery
    query_reparsed  \* URLQuery(str(query)), once it has been built

url_vars == <<constructed, _scheme, _userinfo, _host, _port, locals, call>>

path_vars == <<path, path_call, reparsed>>

query_vars == <<query, query_call, query_reparsed>>

vars == <<url_vars, path_vars, query_vars>>

\* the attributes of the URL object
Self == [scheme |-> _scheme, userinfo |-> _userinfo, host |-> _host, port |-> _port]

(***************************************************************************)
(* The arguments the calls are made with                                   *)
(***************************************************************************)
\* scheme
SchemeInputs ==
    {StrVal(<<>>),
     StrVal(<<"H","T","T","P">>),
     StrVal(<<"1","h","t","t","p">>),
     StrVal(<<"h","@">>)}

\* userinfo
UserinfoInputs ==
    {None,
     StrVal(<<>>),
     StrVal(<<"u","s","e","r">>),
     StrVal(<<"u","s","e","r",":","p","w">>),
     StrVal(<<"a"," ","b">>)}

\* host
HostInputs ==
    {None,
     StrVal(<<>>),
     StrVal(<<"e","x","a","m","p","l","e",".","c","o","m">>),
     StrVal(<<"E","X","A","M","P","L","E",".","c","o","m">>),
     StrVal(<<":",":","1">>),
     StrVal(<<"a"," ","b">>),
     StrVal(<<"a",".",".","b">>)}

\* port: a str, an int or None
PortInputs ==
    {None,
     StrVal(<<>>),
     StrVal(<<"8","0","8","0">>),
     StrVal(<<"8","0","a">>),
     IntVal(8080),
     IntVal(0)}

\* the characters the authority setter splits on, and a host character
AuthorityAlphabet == {"a", "@", ":"}

MaxAuthorityLen == 2

\* every text of 1..n characters of alphabet
Texts(alphabet, n) ==
    UNION {{<<>> \o f : f \in [1..k -> alphabet]} : k \in 1..n}

\* authority: the examples of the documentation, the shapes the setter
\* tells apart, and every short text over AuthorityAlphabet
AuthorityExamples ==
    {StrVal(<<>>),
     StrVal(<<"\t">>),
     StrVal(<<"e","x","a","m","p","l","e",".","c","o","m">>),
     StrVal(<<"u","s","e","r",":","p","w","@","e","x","a","m","p","l","e",".","c","o","m",":","8","0","8","0">>),
     StrVal(<<"a","@","b","@","c">>),
     StrVal(<<"h",":","a","b","c">>),
     StrVal(<<"h",":">>),
     StrVal(<<"u","s","e","r","@">>),
     StrVal(<<"[",":",":","1","]">>)}

AuthorityInputs ==
    AuthorityExamples
        \cup {StrVal(t) : t \in Texts(AuthorityAlphabet, MaxAuthorityLen)}

\* username
UsernameInputs ==
    {StrVal(<<"a","@","b">>)}

\* password
PasswordInputs ==
    {StrVal(<<"s","3","c","r","e","t">>)}

\* path, query and segment left at their defaults
DefaultExtras == {[path |-> None, query |-> None, segment |-> None]}

\* path, query and segment as given to URL(...)
ExtraInputs ==
    {[path |-> None, query |-> None, segment |-> None],
     [path |-> StrVal(<<"/","a"," ","b">>),
      query |-> StrVal(<<"k","=","a"," ","b">>),
      segment |-> None],
     [path |-> ListVal(<<<<"a","/","b">>, <<"c">>>>),
      query |-> DictVal(<< <<<<"k">>, <<"a"," ","b">>>> >>),
      segment |-> StrVal(<<"t","o","p">>)]}

NoCall == [op |-> "new", arg |-> None, exc |-> "none", ret |-> None]

NoLocals == [path |-> Unset, query |-> Unset, segment |-> Unset]

NoPathCall ==
    [op |-> "new", key |-> 0, value |-> None, before |-> <<>>, exc |-> "none"]

NoQueryCall == [op |-> "new"]

\* no URL object yet
UrlIdle ==
    /\ constructed = FALSE
    /\ _scheme = Unset /\ _userinfo = Unset /\ _host = Unset /\ _port = Unset
    /\ locals = NoLocals
    /\ call = NoCall

PathIdle == path = <<>> /\ path_call = NoPathCall /\ reparsed = <<>>

QueryIdle == query = <<>> /\ query_call = NoQueryCall /\ query_reparsed = <<>>

(***************************************************************************)
(* The URL object                                                          *)
(***************************************************************************)
Init == UrlIdle /\ PathIdle /\ QueryIdle

\* the outcome r of the call op(arg) becomes the state
Commit(r, op, arg) ==
    /\ _scheme' = r.self.scheme
    /\ _userinfo' = r.self.userinfo
    /\ _host' = r.self.host
    /\ _port' = r.self.port
    /\ call' = [op |-> op, arg |-> arg, exc |-> r.exc, ret |-> r.ret]
    /\ UNCHANGED <<constructed, locals, path_vars, query_vars>>

\* URL.__init__ with path, query and segment drawn from extras: when it
\* raises there is no object
ConstructWith(extras) ==
    /\ ~constructed /\ call.op = "new"
    /\ \E scheme \in SchemeInputs, authority \in AuthorityInputs \cup {None},
          userinfo \in UserinfoInputs, host \in HostInputs,
          port \in PortInputs, extra \in extras :
          \E r \in {URL_init(scheme, authority, userinfo, host, port)} :
          LET new == IF r.exc = "none" THEN r.self ELSE NewURL
          IN /\ constructed' = (r.exc = "none")
             /\ _scheme' = new.scheme
             /\ _userinfo' = new.userinfo
             /\ _host' = new.host
             /\ _port' = new.port
             /\ locals' = IF r.exc = "none"
                          THEN [path |-> init_path(extra.path),
                                query |-> init_query(extra.query),
                                segment |-> extra.segment]
                          ELSE NoLocals
             /\ call' = [op |-> "init", arg |-> authority,
                         exc |-> r.exc, ret |-> None]
    /\ UNCHANGED <<path_vars, query_vars>>

\* URL(scheme, authority, userinfo, host, port)
Construct == ConstructWith(DefaultExtras)

\* URL(scheme, authority, userinfo, host, port, path, query, segment)
ConstructFull == ConstructWith(ExtraInputs)

SetScheme ==
    /\ constructed
    /\ \E v \in SchemeInputs : \E r \in {scheme_setter(Self, v)} : Commit(r, "scheme", v)

SetUserinfo ==
    /\ constructed
    /\ \E v \in UserinfoInputs : \E r \in {userinfo_setter(Self, v)} : Commit(r, "userinfo", v)

SetHost ==
    /\ constructed
    /\ \E v \in HostInputs : \E r \in {host_setter(Self, v)} : Commit(r, "host", v)

SetPort ==
    /\ constructed
    /\ \E v \in PortInputs : \E r \in {port_setter(Self, v)} : Commit(r, "port", v)

SetAuthority ==
    /\ constructed
    /\ \E v \in AuthorityInputs : \E r \in {authority_setter(Self, v)} : Commit(r, "authority", v)

SetUsername ==
    /\ constructed
    /\ \E v \in UsernameInputs : \E r \in {username_setter(Self, v)} : Commit(r, "username", v)

SetPassword ==
    /\ constructed
    /\ \E v \in PasswordInputs : \E r \in {password_setter(Self, v)} : Commit(r, "password", v)

GetUserinfo ==
    constructed /\ \E r \in {userinfo_getter(Self)} : Commit(r, "get_userinfo", None)

GetPort ==
    constructed /\ \E r \in {port_getter(Self)} : Commit(r, "get_port", None)

GetAuthority ==
    constructed /\ \E r \in {authority_getter(Self)} : Commit(r, "get_authority", None)

ToStr ==
    constructed /\ \E r \in {URL_str(Self)} : Commit(r, "str", None)

Next ==
    \/ Construct
    \/ SetScheme \/ SetUserinfo \/ SetHost \/ SetPort \/ SetAuthority
    \/ SetUsername \/ SetPassword
    \/ GetUserinfo \/ GetPort \/ GetAuthority
    \/ ToStr

Spec == Init /\ [][Next]_vars

\* construction with a path, a query and a segment, and rendering
NextRender == ConstructFull \/ ToStr

SpecRender == Init /\ [][NextRender]_vars

(***************************************************************************)
(* The URLPath object                                                      *)
(***************************************************************************)
MaxPathLen == 3

\* segments without reserved characters: empty, plain, with a space
Segments == {<<>>, <<"a">>, <<"a", " ", "b">>}

\* every sequence of at most n elements of set
SeqsUpTo(set, n) ==
    UNION {{<<>> \o f : f \in [1..k -> set]} : k \in 0..n}

\* the values given to __setitem__: str, bytes and list
SetitemInputs ==
    {StrVal(<<"x", "/", "y">>), StrVal(<<"z">>),
     BytesVal(<<"x", "/", "y">>), ListVal(<< <<"x">>, <<"y">> >>)}

\* URLPath(segments) for a list of segments
InitPath ==
    /\ UrlIdle /\ QueryIdle
    /\ \E segments \in SeqsUpTo(Segments, MaxPathLen) :
          path = URLPath_init(ListVal(segments)).self
    /\ path_call = NoPathCall
    /\ reparsed = <<>>

\* path[key] = value
PathSetItem ==
    /\ \E key \in (0 - MaxPathLen)..(MaxPathLen - 1), value \in SetitemInputs :
       \E r \in {URLPath_setitem(path, key, value)} :
          /\ path' = r.self
          /\ path_call' = [op |-> "setitem", key |-> key, value |-> value,
                           before |-> path, exc |-> r.exc]
    /\ UNCHANGED <<reparsed, url_vars, query_vars>>

\* reparsed = URLPath(str(path))
PathReparse ==
    /\ \E text \in {StrVal(URLPath_str(path))} :
       \E r \in {URLPath_init(text)} :
          /\ reparsed' = r.self
          /\ path_call' = [op |-> "reparse", key |-> 0, value |-> text,
                           before |-> path, exc |-> r.exc]
    /\ UNCHANGED <<path, url_vars, query_vars>>

NextPath == PathSetItem \/ PathReparse

SpecPath == InitPath /\ [][NextPath]_vars

(***************************************************************************)
(* The URLQuery object                                                     *)
(***************************************************************************)
MaxItems == 2

QueryKeys == {<<"k">>, <<"a", " ", "b">>, <<"x", "&", "y">>}

QueryValues == {<<>>, <<"1">>, <<"a", " ", "b">>}

\* every dict of at most n items with keys of keys and values of values
DictsUpTo(keys, values, n) ==
    {d \in SeqsUpTo(keys \X values, n) :
        \A i, j \in 1..Len(d) : i # j => d[i][1] # d[j][1]}

\* URLQuery(mapping) for a dict
InitQuery ==
    /\ UrlIdle /\ PathIdle
    /\ \E mapping \in DictsUpTo(QueryKeys, QueryValues, MaxItems) :
          query = URLQuery_init(DictVal(mapping))
    /\ query_call = NoQueryCall
    /\ query_reparsed = <<>>

\* query_reparsed = URLQuery(str(query))
QueryReparse ==
    /\ \E text \in {URLQuery_str(query)} :
          /\ query_reparsed' = URLQuery_init(StrVal(text))
          /\ query_call' = [op |-> "reparse"]
    /\ UNCHANGED <<query, url_vars, path_vars>>

NextQuery == QueryReparse

SpecQuery == InitQuery /\ [][NextQuery]_vars

(***************************************************************************)
(* Properties of the URL                                                   *)
(***************************************************************************)
\* s.rfind(c): the last position of character c in s, 0 when absent
LastFind(s, c) ==
    IF \E i \in 1..Len(s) : s[i] = c
    THEN CHOOSE i \in 1..Len(s) : s[i] = c /\ \A j \in (i + 1)..Len(s) : s[j] # c
    ELSE 0

\* the text holds a host alone: not empty, no "@", no ":", no unsafe byte
IsHostAlone(s) ==
    s # <<>> /\ \A i \in 1..Len(s) : s[i] \notin {"@", ":"} \cup UNSAFE_URL_BYTES_TO_REMOVE

\* the last call made the authority setter run on a non-empty str and it
\* returned: a call of the setter, or a construction from an authority
AuthorityWasSet ==
    /\ call.op \in {"authority", "init"}
    /\ call.exc = "none"
    /\ Truthy(call.arg)

\* the authority text as the setter reads it: unsafe bytes removed, then
\* percent-encoded with "@" and ":" kept
AuthorityText(v) == Quote(clear_unsafe_bytes(v.s), {"@", ":"})

\* C1: after the authority setter has returned for a non-empty string,
\* userinfo is everything before the last "@" (also with more than one "@"),
\* the rest after the last "@" is split on its first ":" into host and port,
\* and the host is what the host setter stores for the host part.
C1_AuthorityDecomposition ==
    (call.op = "authority" /\ call.exc = "none" /\ Truthy(call.arg)
        /\ AuthorityText(call.arg) # <<>>) =>
        LET a == AuthorityText(call.arg)
            at == LastFind(a, "@")
            host_and_port == Split1(SubSeq(a, at + 1, Len(a)), ":")
            stored == host_setter(NewURL, StrVal(host_and_port[1]))
        IN /\ _host = stored.self.host
           /\ (at # 0 => _userinfo = StrVal(SubSeq(a, 1, at - 1)))
           /\ (Len(host_and_port) > 1 => _port = StrVal(host_and_port[2]))

\* the text of a field that is a str or an int, and "" for an absent one
TextOf(v) == IF v.k \in {"str", "int"} THEN Format(v) ELSE <<>>

\* scheme ":" ["//" authority] path ["?" query] ["#" fragment]
Rendering ==
    TextOf(_scheme) \o <<":">>
    \o (IF _host.k = "str"
        THEN <<"/", "/">>
             \o (IF Truthy(_userinfo) THEN TextOf(_userinfo) \o <<"@">> ELSE <<>>)
             \o TextOf(_host)
             \o (IF Truthy(_port) THEN <<":">> \o TextOf(_port) ELSE <<>>)
        ELSE <<>>)
    \o TextOf(locals.path)
    \o (IF Truthy(locals.query) THEN <<"?">> \o TextOf(locals.query) ELSE <<>>)
    \o (IF locals.segment.k = "str"
        THEN <<"#">> \o TextOf(locals.segment) ELSE <<>>)

\* C2: converting a constructed URL to a string yields scheme, ":", "//" and
\* the authority only when host is set, the rendered path, "?" and the query
\* only when the query is not empty, "#" and the fragment only when it is set.
C2_StrRendersGrammar ==
    call.op = "str" => call.exc = "none" /\ call.ret = StrVal(Rendering)

\* C3: the host setter accepts a valid IPv6 literal and stores it in square
\* brackets; another host it accepts is stored lowercased.
C3_HostIPv6Bracketed ==
    (call.op = "host" /\ call.arg.k = "str") =>
        IF IsIPv6Address(call.arg.s)
        THEN /\ call.exc = "none"
             /\ _host = StrVal(<<"[">> \o call.arg.s \o <<"]">>)
        ELSE call.exc = "none" => _host = StrVal(Lower(call.arg.s))

\* C4: the stored port of a constructed URL is absent, or a non-empty string
\* of decimal digits (an int port being held as its decimal string).
C4_PortIsDigits ==
    constructed =>
        \/ _port.k \in {"unset", "None"}
        \/ _port.k = "str" /\ _port.s # <<>> /\ AllIn(_port.s, digits)

\* C5: a constructed URL always has a non-empty host, so reading the
\* authority never fails, and an authority input that is empty once the
\* unsafe bytes are stripped is rejected with an error.
C5_HostAlwaysSet ==
    /\ constructed => _host.k = "str" /\ _host.s # <<>>
    /\ call.op = "get_authority" => call.exc = "none"
    /\ (call.op = "authority" /\ call.arg.k = "str"
            /\ clear_unsafe_bytes(call.arg.s) = <<>>) => call.exc # "none"

\* C6: after the authority setter (called directly or from the constructor)
\* is given a host alone, the URL has that host, no userinfo and no port:
\* both read as None, whatever they held before.
C6_HostAloneClearsOthers ==
    (AuthorityWasSet /\ IsHostAlone(call.arg.s)) =>
        /\ _host = host_setter(NewURL, call.arg).self.host
        /\ _userinfo = None
        /\ _port = None

SetterOps ==
    {"scheme", "userinfo", "host", "port", "authority", "username", "password"}

\* C7: a setter call that raises leaves scheme, userinfo, host and port
\* exactly as they were before the call.
C7_RaisingSetterChangesNothing ==
    [][(call'.op \in SetterOps /\ call'.exc # "none")
          => <<_scheme, _userinfo, _host, _port>>'
                 = <<_scheme, _userinfo, _host, _port>>]_vars

\* the authority setter raised on a text that carries a userinfo and a port,
\* on a URL whose userinfo and port differ from those of the text
C7_Witness ==
    /\ call.op = "authority" /\ call.exc # "none"
    /\ Find(call.arg.s, "@") # 0 /\ Find(call.arg.s, ":") # 0
    /\ _userinfo.k = "str" /\ _port.k = "str"
    /\ _userinfo.s # Split(call.arg.s, "@")[1]

(***************************************************************************)
(* Properties of the URLPath                                               *)
(***************************************************************************)
\* the parts of a value written by index: a str or bytes value split on "/",
\* the elements of a sequence
PartsOf(v) == IF v.k \in {"str", "bytes"} THEN Split(v.s, "/") ELSE v.s

\* C8: s[i] = v with -n <= i < n leaves s equal to the elements before
\* position i, then the parts of v, then the elements after position i.
C8_SetitemSplices ==
    LET n == Len(path_call.before)
        i == IF path_call.key < 0 THEN n + path_call.key ELSE path_call.key
    IN (path_call.op = "setitem" /\ 0 - n <= path_call.key /\ path_call.key < n) =>
           /\ path_call.exc = "none"
           /\ path = SubSeq(path_call.before, 1, i)
                         \o PartsOf(path_call.value)
                         \o SubSeq(path_call.before, i + 2, n)

\* C9: rendering a URLPath of segments without reserved characters and
\* parsing the text with the string constructor gives an equal sequence.
C9_PathRoundTrip ==
    path_call.op = "reparse" => reparsed = path

(***************************************************************************)
(* Properties of the URLQuery                                              *)
(***************************************************************************)
\* C10: rendering a URLQuery and parsing the text with the string constructor
\* gives a mapping with the same keys and the same value for each key.
C10_QueryRoundTrip ==
    query_call.op = "reparse" => DictEq(query_reparsed, query)

=============================================================================
